---- MODULE Spec2Model ----
(***************************************************************************)
(* Basalt SaaS: session tokens (auth.py), the user / API-key store          *)
(* (database.py) and the request handlers and quota helpers                *)
(* (routes_auth.py), and the SDK client (basalt_sdk/client.py).  The clock  *)
(* is read in whole days plus a sub-second part; the seconds in between    *)
(* are not tracked.                                                        *)
(***************************************************************************)
EXTENDS Integers, Sequences, FiniteSets, TLC

VARIABLES
    now,      \* datetime.utcnow(), in days since the process started
    users,    \* table "users": sequence of rows, row i has id i
    keys,     \* table "api_keys": sequence of rows, row i has id i
    cookie,   \* the client's "session" cookie
    resp,     \* what the last handler / helper call returned
    reqs,     \* in-flight notarization requests, each with its own ORM session
    issued,   \* the last create_access_token call: arguments, time and token
    wire      \* the HTTP requests the SDK client has sent, oldest first

vars == <<now, users, keys, cookie, resp, reqs, issued, wire>>

(***************************************************************************)
(* Bounds of the model                                                     *)
(***************************************************************************)
MaxUsers == 2
MaxKeys == 2
MaxTime == 62
MaxTokenTime == 8
MaxUsage == 12
NumReqs == 2
MaxClock == 1
MaxKeyUse == 2
MaxPosts == 2

(***************************************************************************)
(* Program constants                                                       *)
(***************************************************************************)
ACCESS_TOKEN_EXPIRE_HOURS == 24 * 7
ResetPeriodDays == 30
FreeMonthlyLimit == 10
MinPasswordLen == 8
NoDate == -1
SECRET_KEY == "server-secret"
ALGORITHM == "HS256"

PRICING_TIERS ==
    [ free       |-> [monthly_limit |-> 10,    api_access |-> FALSE],
      pro        |-> [monthly_limit |-> 500,   api_access |-> TRUE],
      enterprise |-> [monthly_limit |-> 10000, api_access |-> TRUE] ]

(***************************************************************************)
(* Values returned by helpers: Python's None, a value, or a raised error   *)
(***************************************************************************)
None == [kind |-> "none"]
Value(v) == [kind |-> "value", value |-> v]
Raise(e) == [kind |-> "raise", exc |-> e]
Claims(p) == [kind |-> "claims", claims |-> p]
Bool(b) == [kind |-> "bool", flag |-> b]
NoArg == [none |-> TRUE]

(***************************************************************************)
(* Strings are sequences of characters, so that lower() and len() are      *)
(* computed rather than assumed.                                           *)
(***************************************************************************)
LowerChar(c) ==
    CASE c = "A" -> "a"
      [] c = "B" -> "b"
      [] c = "C" -> "c"
      [] c = "D" -> "d"
      [] OTHER -> c

Lower(s) == [i \in DOMAIN s |-> LowerChar(s[i])]

Emails == { <<"a", "@", "b">>, <<"A", "@", "B">>, <<"c", "@", "d">> }

Passwords ==
    { <<"s", "h", "o", "r", "t">>,
      <<"s", "e", "v", "e", "n", "c", "h">>,
      <<"e", "i", "g", "h", "t", "c", "h", "r">>,
      <<"l", "o", "n", "g", "e", "r", "p", "a", "s", "s">> }

\* passlib bcrypt: a self-describing digest; verify re-derives and compares
hash_password(password) == [scheme |-> "bcrypt", of |-> password]

verify_password_any(plain_password, hashed_password) ==
    hashed_password.scheme = "bcrypt"

verify_password(plain_password, hashed_password) ==
    hashed_password = hash_password(plain_password)

(***************************************************************************)
(* Session tokens (auth.py)                                                *)
(***************************************************************************)
NoCookie == [form |-> "absent"]
Garbage == [form |-> "garbage"]

\* datetime and timedelta values: days, seconds and microseconds, normalised
SecondsPerDay == 24 * 60 * 60
MicrosPerSecond == 1000000

UtcNow(t, us) == [days |-> t, seconds |-> 0, micro |-> us]

DatetimeAdd(dt, delta) ==
    LET micro == dt.micro + delta.micro
        seconds == dt.seconds + delta.seconds + (micro \div MicrosPerSecond)
    IN  [days |-> dt.days + delta.days + (seconds \div SecondsPerDay),
         seconds |-> seconds % SecondsPerDay,
         micro |-> micro % MicrosPerSecond]

\* timegm(dt.utctimetuple()): whole seconds, the microseconds are dropped
NumericDate(dt) == dt.days * SecondsPerDay + dt.seconds

\* jwt.encode(to_encode, key, algorithm): a datetime "exp" becomes a
\* NumericDate, then the payload is signed with key
JwtEncode(payload, key) ==
    [form |-> "jwt",
     payload |-> [k \in DOMAIN payload |->
                    IF k = "exp" THEN NumericDate(payload[k]) ELSE payload[k]],
     key |-> key]

\* dict.update({"exp": expire}) on a copy of data
WithExp(data, expire) ==
    [k \in (DOMAIN data) \cup {"exp"} |-> IF k = "exp" THEN expire ELSE data[k]]

\* The sub-second part of the clock when it is read, in microseconds
HalfSecond == MicrosPerSecond \div 2
ClockMicros == {0, HalfSecond}

\* timedelta truthiness: timedelta(0) is falsy, None is falsy
NoDelta == [given |-> FALSE]
Timedelta(d, s, us) == [given |-> TRUE, days |-> d, seconds |-> s, micro |-> us]
Delta(d) == Timedelta(d, 0, 0)
Hours(h) == Timedelta(h \div 24, (h % 24) * 60 * 60, 0)
DeltaTruthy(expires_delta) ==
    /\ expires_delta.given
    /\ expires_delta.days # 0 \/ expires_delta.seconds # 0 \/ expires_delta.micro # 0

create_access_token_default_ttl(data, expires_delta, utcnow) ==
    JwtEncode(WithExp(data, DatetimeAdd(utcnow, Hours(ACCESS_TOKEN_EXPIRE_HOURS))),
              SECRET_KEY)

create_access_token(data, expires_delta, utcnow) ==
    LET expire == IF DeltaTruthy(expires_delta)
                  THEN DatetimeAdd(utcnow, expires_delta)
                  ELSE DatetimeAdd(utcnow, Hours(ACCESS_TOKEN_EXPIRE_HOURS))
    IN  JwtEncode(WithExp(data, expire), SECRET_KEY)

\* Names the imported jwt package (PyJWT: encode/decode with algorithm=,
\* algorithms=[...]) exports as exception classes, with their base classes.
JwtExceptionBases ==
    [ PyJWTError              |-> {"PyJWTError"},
      InvalidTokenError       |-> {"InvalidTokenError", "PyJWTError"},
      DecodeError             |-> {"DecodeError", "InvalidTokenError", "PyJWTError"},
      InvalidSignatureError   |-> {"InvalidSignatureError", "DecodeError",
                                   "InvalidTokenError", "PyJWTError"},
      ExpiredSignatureError   |-> {"ExpiredSignatureError", "InvalidTokenError",
                                   "PyJWTError"},
      InvalidAudienceError    |-> {"InvalidAudienceError", "InvalidTokenError",
                                   "PyJWTError"} ]

JwtModuleNames == DOMAIN JwtExceptionBases

\* jwt.decode(token, key, algorithms): structure, then signature, then exp
\* against the clock in seconds, then aud (no audience is passed)
JwtDecode(token, key, t) ==
    IF token.form # "jwt" THEN Raise("DecodeError")
    ELSE IF token.key # key THEN Raise("InvalidSignatureError")
    ELSE IF "exp" \in DOMAIN token.payload /\ token.payload.exp <= t * SecondsPerDay
         THEN Raise("ExpiredSignatureError")
    ELSE IF "aud" \in DOMAIN token.payload THEN Raise("InvalidAudienceError")
    ELSE Claims(token.payload)

\* `except jwt.<name>:` evaluated while exception exc propagates:
\* "caught", "passed" (no match) or "AttributeError" (jwt has no such name)
ExceptClause(name, exc) ==
    IF name \notin JwtModuleNames THEN "AttributeError"
    ELSE IF name \in JwtExceptionBases[exc] THEN "caught"
    ELSE "passed"

decode_access_token(token, t) ==
    LET r == JwtDecode(token, SECRET_KEY, t) IN
    IF r.kind = "claims" THEN r
    ELSE LET first == ExceptClause("ExpiredSignatureError", r.exc) IN
         IF first = "caught" THEN None
         ELSE LET second == ExceptClause("JWTError", r.exc) IN
              IF second = "caught" THEN None
              ELSE IF second = "AttributeError" THEN Raise("AttributeError")
              ELSE r

\* payload.get(name)
DictGet(payload, name) ==
    IF name \in DOMAIN payload THEN Value(payload[name]) ELSE None

\* Python truthiness of an Optional[...] result
Truthy(r) ==
    /\ r.kind = "value"
    /\ r.value # 0

get_user_from_token(token, t) ==
    LET payload == decode_access_token(token, t) IN
    IF payload.kind = "raise" THEN payload
    ELSE IF payload.kind = "claims" /\ DOMAIN payload.claims # {}
         THEN DictGet(payload.claims, "user_id")
         ELSE None

\* db.query(User).filter(User.id == user_id).first()
UserById(user_id) ==
    IF user_id \in 1..Len(users) THEN Value(user_id) ELSE None

\* Returns the id of the resolved User, None, or the error that propagates
get_current_user(c, t) ==
    IF c.form = "absent" THEN None
    ELSE LET payload == decode_access_token(c, t) IN
         IF payload.kind = "raise" THEN payload
         ELSE IF payload.kind = "none" \/ DOMAIN payload.claims = {} THEN None
         ELSE LET user_id == DictGet(payload.claims, "user_id") IN
              IF ~Truthy(user_id) THEN None
              ELSE UserById(user_id.value)

\* whether get_current_user gets as far as its db.query (line 34)
QueriesUser(c, t) ==
    /\ c.form # "absent"
    /\ decode_access_token(c, t).kind = "claims"
    /\ Truthy(DictGet(decode_access_token(c, t).claims, "user_id"))

(***************************************************************************)
(* The store (database.py) and ORM sessions                                *)
(***************************************************************************)
Tiers == DOMAIN PRICING_TIERS

\* db.query(User).filter(User.email == e).first(): 0 when there is no row
UserByEmail(e) ==
    IF \E i \in 1..Len(users) : users[i].email = e
    THEN CHOOSE i \in 1..Len(users) :
            /\ users[i].email = e
            /\ \A j \in 1..(i - 1) : users[j].email # e
    ELSE 0

\* db.commit(): the session flushes an UPDATE of the columns whose value
\* differs from the one it loaded; the other columns keep what is stored.
Commit(row, loaded, obj) ==
    [f \in DOMAIN row |-> IF obj[f] # loaded[f] THEN obj[f] ELSE row[f]]

\* Every handler answers with one of these
\* touched: whether the call issued any statement against the store
Resp(op, arg, status, error, set_cookie, result, touched) ==
    [op |-> op, arg |-> arg, at |-> now, status |-> status, error |-> error,
     set_cookie |-> set_cookie, result |-> result, touched |-> touched]

NoResp ==
    [op |-> "none", arg |-> NoArg, at |-> 0, status |-> 0, error |-> "",
     set_cookie |-> NoCookie, result |-> None, touched |-> FALSE]

(***************************************************************************)
(* Quota tracker (routes_auth.py)                                          *)
(***************************************************************************)
ResetDueInclusive(user, t) == user.reset_date # NoDate /\ t >= user.reset_date

\* user.reset_date and datetime.utcnow() > user.reset_date
ResetDue(user, t) == user.reset_date # NoDate /\ t > user.reset_date

\* row: what is stored; loaded: what this session read; user: the object
\* handed to the helper.  Returns the stored row, the object and the result.
check_user_limit(row, loaded, user, t) ==
    IF ResetDue(user, t)
    THEN LET assigned == [user EXCEPT !.notarizations_this_month = 0,
                                      !.reset_date = t + ResetPeriodDays]
             stored == Commit(row, loaded, assigned)
         IN  \* the commit expires the object: line 313 reads it back
             [row |-> stored, user |-> stored,
              result |-> stored.notarizations_this_month < stored.monthly_limit]
    ELSE [row |-> row, user |-> user,
          result |-> user.notarizations_this_month < user.monthly_limit]

increment_twice(row, loaded, user) ==
    LET assigned == [user EXCEPT !.notarizations_this_month = @ + 2]
    IN  [row |-> Commit(row, loaded, assigned), user |-> assigned]

increment_user_usage(row, loaded, user) ==
    LET assigned == [user EXCEPT !.notarizations_this_month = @ + 1]
    IN  [row |-> Commit(row, loaded, assigned), user |-> assigned]

\* One helper call at a time, on a freshly loaded user
CheckUserLimit(i) ==
    /\ i \in 1..Len(users)
    /\ LET r == check_user_limit(users[i], users[i], users[i], now) IN
       /\ users' = [users EXCEPT ![i] = r.row]
       /\ resp' = Resp("check_user_limit", [id |-> i, user |-> users[i]], 0, "",
                       NoCookie, Bool(r.result), ResetDue(users[i], now))
    /\ UNCHANGED <<now, keys, cookie, reqs, wire, issued>>

IncrementUserUsage(i) ==
    /\ i \in 1..Len(users)
    /\ users[i].notarizations_this_month < MaxUsage
    /\ LET r == increment_user_usage(users[i], users[i], users[i]) IN
       /\ users' = [users EXCEPT ![i] = r.row]
       /\ resp' = Resp("increment_user_usage", [id |-> i, user |-> users[i]], 0, "",
                       NoCookie, None, TRUE)
    /\ UNCHANGED <<now, keys, cookie, reqs, wire, issued>>

(***************************************************************************)
(* Concurrent notarization requests: each has its own session, loads the   *)
(* user, calls check_user_limit and, if that passed, increment_user_usage. *)
(***************************************************************************)
Reqs == 1..NumReqs

IdleReq == [pc |-> "idle", uid |-> 0, loaded |-> <<>>, user |-> <<>>]

ReqLoad(r, i) ==
    /\ reqs[r].pc = "idle"
    /\ i \in 1..Len(users)
    /\ reqs' = [reqs EXCEPT ![r] =
                  [pc |-> "loaded", uid |-> i, loaded |-> users[i], user |-> users[i]]]
    /\ UNCHANGED <<now, users, keys, cookie, resp, issued, wire>>

ReqCheck(r) ==
    /\ reqs[r].pc = "loaded"
    /\ LET q == reqs[r]
           c == check_user_limit(users[q.uid], q.loaded, q.user, now)
       IN
       /\ users' = [users EXCEPT ![q.uid] = c.row]
       /\ reqs' = [reqs EXCEPT ![r] =
                     IF c.result
                     THEN [pc |-> "passed", uid |-> q.uid,
                           loaded |-> IF ResetDue(q.user, now) THEN c.row ELSE q.loaded,
                           user |-> c.user]
                     ELSE IdleReq]
    /\ UNCHANGED <<now, keys, cookie, resp, issued, wire>>

ReqIncrement(r) ==
    /\ reqs[r].pc = "passed"
    /\ LET q == reqs[r]
           c == increment_user_usage(users[q.uid], q.loaded, q.user)
       IN
       /\ users' = [users EXCEPT ![q.uid] = c.row]
       /\ reqs' = [reqs EXCEPT ![r] = IdleReq]
    /\ UNCHANGED <<now, keys, cookie, resp, issued, wire>>

(***************************************************************************)
(* Signup (routes_auth.py)                                                 *)
(***************************************************************************)
NewUserRawEmail(email, password, t) ==
    [ email |-> email,
      password_hash |-> hash_password(password),
      tier |-> "free",
      monthly_limit |-> FreeMonthlyLimit,
      notarizations_this_month |-> 0,
      reset_date |-> t + ResetPeriodDays,
      last_login |-> NoDate ]

NewUser(email, password, t) ==
    [ email |-> Lower(email),
      password_hash |-> hash_password(password),
      tier |-> "free",
      monthly_limit |-> FreeMonthlyLimit,
      notarizations_this_month |-> 0,
      reset_date |-> t + ResetPeriodDays,
      last_login |-> NoDate ]

SessionClaims(user_id) == [user_id |-> user_id, email |-> users'[user_id].email]

SessionToken(user_id, utcnow) ==
    create_access_token(SessionClaims(user_id), NoDelta, utcnow)

\* data.copy(): the caller's dict is what it was before the call
CallerData(data, token) == data

Issuance(data, expires_delta, utcnow) ==
    LET token == create_access_token(data, expires_delta, utcnow) IN
    [data |-> CallerData(data, token), expires_delta |-> expires_delta,
     at |-> utcnow.days, token |-> token]

signup_submit(email, password) ==
    IF UserByEmail(Lower(email)) # 0
    THEN /\ resp' = Resp("signup", [email |-> email, password |-> password], 200,
                         "An account with this email already exists", NoCookie, None,
                         TRUE)
         /\ UNCHANGED <<users, cookie, issued>>
    ELSE IF Len(password) < MinPasswordLen
    THEN /\ resp' = Resp("signup", [email |-> email, password |-> password], 200,
                         "Password must be at least 8 characters", NoCookie, None,
                         TRUE)
         /\ UNCHANGED <<users, cookie, issued>>
    ELSE /\ Len(users) < MaxUsers
         /\ users' = Append(users, NewUser(email, password, now))
         /\ \E us \in ClockMicros :
               /\ cookie' = SessionToken(Len(users) + 1, UtcNow(now, us))
               /\ issued' = Issuance(SessionClaims(Len(users) + 1), NoDelta,
                                     UtcNow(now, us))
         /\ resp' = Resp("signup", [email |-> email, password |-> password], 303, "",
                         cookie', Value(Len(users) + 1), TRUE)

Signup(email, password) ==
    /\ signup_submit(email, password)
    /\ UNCHANGED <<now, keys, reqs, wire>>

(***************************************************************************)
(* Login, logout, dashboard (routes_auth.py)                               *)
(***************************************************************************)
login_submit(email, password) ==
    LET user == UserByEmail(Lower(email)) IN
    IF user = 0 \/ ~verify_password(password, users[user].password_hash)
    THEN /\ resp' = Resp("login", [email |-> email, password |-> password], 200, "Invalid email or password",
                         NoCookie, None, TRUE)
         /\ UNCHANGED <<users, cookie, issued>>
    ELSE /\ users' = [users EXCEPT ![user].last_login = now]
         /\ \E us \in ClockMicros :
               /\ cookie' = SessionToken(user, UtcNow(now, us))
               /\ issued' = Issuance(SessionClaims(user), NoDelta, UtcNow(now, us))
         /\ resp' = Resp("login", [email |-> email, password |-> password], 303, "",
                         cookie', Value(user), TRUE)

Login(email, password) ==
    /\ login_submit(email, password)
    /\ UNCHANGED <<now, keys, reqs, wire>>

Logout ==
    /\ cookie' = NoCookie
    /\ resp' = Resp("logout", NoArg, 303, "", NoCookie, None, FALSE)
    /\ UNCHANGED <<now, users, keys, reqs, wire, issued>>

\* lines 176-180: the dashboard's own copy of the lazy reset
DashboardReset(user, t) ==
    IF user.reset_date # NoDate /\ t > user.reset_date
    THEN [user EXCEPT !.notarizations_this_month = 0,
                      !.reset_date = t + ResetPeriodDays]
    ELSE user

Dashboard ==
    /\ LET user == get_current_user(cookie, now) IN
       CASE user.kind = "raise" ->
              /\ resp' = Resp("dashboard", NoArg, 500, user.exc, NoCookie, None, FALSE)
              /\ UNCHANGED users
         [] user.kind = "none" ->
              /\ resp' = Resp("dashboard", NoArg, 303, "", NoCookie, None,
                              QueriesUser(cookie, now))
              /\ UNCHANGED users
         [] OTHER ->
              /\ users' = [users EXCEPT ![user.value] =
                             Commit(@, @, DashboardReset(@, now))]
              /\ resp' = Resp("dashboard", [id |-> user.value, user |-> users[user.value]],
                              200, "", NoCookie, user, TRUE)
    /\ UNCHANGED <<now, keys, cookie, reqs, wire, issued>>

\* The clock
Tick(d, limit) ==
    /\ now + d <= limit
    /\ now' = now + d
    /\ UNCHANGED <<users, keys, cookie, resp, reqs, wire, issued>>

(***************************************************************************)
(* Token calls made one at a time: the client keeps the token it was given *)
(* as its cookie, or replaces it by one the server never signed.           *)
(***************************************************************************)
IssueToken(data, expires_delta, us) ==
    /\ issued' = Issuance(data, expires_delta, UtcNow(now, us))
    /\ cookie' = issued'.token
    /\ resp' = Resp("create_access_token",
                    [data |-> data, expires_delta |-> expires_delta],
                    0, "", cookie', None, FALSE)
    /\ UNCHANGED <<now, users, keys, reqs, wire>>

PresentForged(token) ==
    /\ token.form = "jwt" => token.key # SECRET_KEY
    /\ cookie' = token
    /\ UNCHANGED <<now, users, keys, resp, reqs, wire, issued>>

DecodeToken ==
    /\ cookie # NoCookie
    /\ resp' = Resp("decode_access_token", [token |-> cookie], 0, "", NoCookie,
                    decode_access_token(cookie, now), FALSE)
    /\ UNCHANGED <<now, users, keys, cookie, reqs, wire, issued>>

GetCurrentUser ==
    /\ resp' = Resp("get_current_user", [token |-> cookie], 0, "", NoCookie,
                    get_current_user(cookie, now), QueriesUser(cookie, now))
    /\ UNCHANGED <<now, users, keys, cookie, reqs, wire, issued>>

(***************************************************************************)
(* API keys (auth.py, routes_auth.py)                                      *)
(***************************************************************************)
KeyPrefix == <<"b", "s", "l", "t", "_">>

\* str.startswith
StartsWith(s, prefix) ==
    /\ Len(s) >= Len(prefix)
    /\ SubSeq(s, 1, Len(prefix)) = prefix

\* secrets.token_hex(24), shortened: the random part of a key
TokenHex == { <<"0">>, <<"f">> }

generate_api_key(token_hex) == KeyPrefix \o token_hex

NewKey(user_id, key) ==
    [ user_id |-> user_id,
      key |-> key,
      is_active |-> TRUE,
      last_used |-> NoDate,
      usage_count |-> 0 ]

\* subscription changes are made outside routes_auth.py: the tier and its
\* limit are set from the pricing table
SetTier(i, tier) ==
    /\ i \in 1..Len(users)
    /\ users[i].tier # tier
    /\ users' = [users EXCEPT ![i].tier = tier,
                              ![i].monthly_limit = PRICING_TIERS[tier].monthly_limit]
    /\ UNCHANGED <<now, keys, cookie, resp, reqs, wire, issued>>

create_api_key(token_hex) ==
    LET user == get_current_user(cookie, now)
        arg == [cookie |-> cookie, token_hex |-> token_hex]
    IN
    CASE user.kind = "raise" ->
           /\ resp' = Resp("create_api_key", arg, 500, user.exc, NoCookie, None, FALSE)
           /\ UNCHANGED keys
      [] user.kind = "none" ->
           /\ resp' = Resp("create_api_key", arg, 401, "Unauthorized", NoCookie, None,
                           QueriesUser(cookie, now))
           /\ UNCHANGED keys
      [] OTHER ->
           IF users[user.value].tier = "free"
           THEN /\ resp' = Resp("create_api_key", arg, 403,
                                "Upgrade to Pro for API access", NoCookie, None, TRUE)
                /\ UNCHANGED keys
           ELSE IF \E j \in 1..Len(keys) : keys[j].key = generate_api_key(token_hex)
           THEN \* api_keys.key is unique: the INSERT fails at db.commit()
                /\ resp' = Resp("create_api_key", arg, 500, "IntegrityError",
                                NoCookie, None, TRUE)
                /\ UNCHANGED keys
           ELSE /\ Len(keys) < MaxKeys
                /\ keys' = Append(keys, NewKey(user.value, generate_api_key(token_hex)))
                /\ resp' = Resp("create_api_key", arg, 200, "", NoCookie,
                                Value(Len(keys) + 1), TRUE)

CreateApiKey(token_hex) ==
    /\ create_api_key(token_hex)
    /\ UNCHANGED <<now, users, cookie, reqs, wire, issued>>

\* db.query(APIKey).filter(APIKey.id == key_id, APIKey.user_id == user.id).first()
OwnKeyAnyOwner(key_id, user_id) ==
    IF key_id \in 1..Len(keys) THEN key_id ELSE 0

OwnKey(key_id, user_id) ==
    IF key_id \in 1..Len(keys) /\ keys[key_id].user_id = user_id THEN key_id ELSE 0

delete_api_key(key_id) ==
    LET user == get_current_user(cookie, now)
        arg == [cookie |-> cookie, key_id |-> key_id]
    IN
    CASE user.kind = "raise" ->
           /\ resp' = Resp("delete_api_key", arg, 500, user.exc, NoCookie, None, FALSE)
           /\ UNCHANGED keys
      [] user.kind = "none" ->
           /\ resp' = Resp("delete_api_key", arg, 401, "Unauthorized", NoCookie, None,
                           QueriesUser(cookie, now))
           /\ UNCHANGED keys
      [] OTHER ->
           IF OwnKey(key_id, user.value) = 0
           THEN /\ resp' = Resp("delete_api_key", arg, 404, "Key not found",
                                NoCookie, None, TRUE)
                /\ UNCHANGED keys
           ELSE /\ keys' = [keys EXCEPT ![key_id].is_active = FALSE]
                /\ resp' = Resp("delete_api_key", arg, 200, "", NoCookie,
                                Value(key_id), TRUE)

DeleteApiKey(key_id) ==
    /\ delete_api_key(key_id)
    /\ UNCHANGED <<now, users, cookie, reqs, wire, issued>>

ShapeRejectedEmptyOnly(api_key) == api_key = <<>>

\* the shape test made before any query: `not api_key or not startswith`
ShapeRejected(api_key) == api_key = <<>> \/ ~StartsWith(api_key, KeyPrefix)

AnyKey(api_key) ==
    IF \E j \in 1..Len(keys) : keys[j].key = api_key
    THEN CHOOSE j \in 1..Len(keys) : keys[j].key = api_key
    ELSE 0

\* db.query(APIKey).filter(APIKey.key == api_key, APIKey.is_active == True).first()
ActiveKey(api_key) ==
    IF \E j \in 1..Len(keys) : keys[j].key = api_key /\ keys[j].is_active
    THEN CHOOSE j \in 1..Len(keys) :
            /\ keys[j].key = api_key /\ keys[j].is_active
            /\ \A k \in 1..(j - 1) : ~(keys[k].key = api_key /\ keys[k].is_active)
    ELSE 0

UseKeyTimeOnly(key, t) == [key EXCEPT !.last_used = t]

\* lines 298-299
UseKey(key, t) == [key EXCEPT !.last_used = t, !.usage_count = @ + 1]

validate_api_key(api_key) ==
    IF ShapeRejected(api_key)
    THEN /\ resp' = Resp("validate_api_key", [api_key |-> api_key], 0, "", NoCookie,
                         None, FALSE)
         /\ UNCHANGED keys
    ELSE LET key == ActiveKey(api_key) IN
         IF key = 0
         THEN /\ resp' = Resp("validate_api_key", [api_key |-> api_key], 0, "",
                              NoCookie, None, TRUE)
              /\ UNCHANGED keys
         ELSE /\ keys[key].usage_count < MaxKeyUse
              /\ keys' = [keys EXCEPT ![key] = UseKey(@, now)]
              /\ resp' = Resp("validate_api_key", [api_key |-> api_key], 0, "",
                              NoCookie, UserById(keys[key].user_id), TRUE)

ValidateApiKey(api_key) ==
    /\ validate_api_key(api_key)
    /\ UNCHANGED <<now, users, cookie, reqs, wire, issued>>

(***************************************************************************)
(* Specifications                                                          *)
(***************************************************************************)
(***************************************************************************)
(* The SDK client (basalt_sdk/client.py)                                   *)
(***************************************************************************)
RaiseMsg(e, message) == [kind |-> "raise", exc |-> e, message |-> message]

\* BasaltClient(): base_url without its trailing "/"
base_url == "http://localhost:8000"

\* Paths on the caller's disk
Files ==
    { [path |-> "/tmp/missing.jpg", kind |-> "absent"],
      [path |-> "/tmp",             kind |-> "directory"],
      [path |-> "/tmp/photo.jpg",   kind |-> "file"],
      [path |-> "/tmp/doc.pdf",     kind |-> "file"] }

\* os.path.exists(file_path)
Exists(file) == file.kind # "absent"

\* open(file_path, 'rb') of an existing path: Value, or the OSError it raises
Open(file) ==
    IF file.kind = "file" THEN Value(file.path)
    ELSE RaiseMsg("IsADirectoryError", "[Errno 21] Is a directory: '" \o file.path \o "'")

\* Exception classes that can arise in the try block, with their bases
ClientExceptionBases ==
    [ ConnectionError |-> {"ConnectionError", "RequestException", "Exception"},
      ConnectTimeout  |-> {"ConnectTimeout", "ConnectionError", "Timeout",
                           "RequestException", "Exception"},
      ReadTimeout     |-> {"ReadTimeout", "Timeout", "RequestException", "Exception"},
      HTTPError       |-> {"HTTPError", "RequestException", "Exception"},
      JSONDecodeError |-> {"JSONDecodeError", "ValueError", "Exception"},
      KeyError        |-> {"KeyError", "LookupError", "Exception"},
      Exception       |-> {"Exception"} ]

\* What the server's JSON body can be
FullEvidence ==
    [ ipfs_cid          |-> "QmX",
      ipfs_url          |-> "https://ipfs.io/ipfs/QmX",
      sha256_hash       |-> "9f86d0",
      solana_tx         |-> "5Tx",
      c2pa_verification |-> "signed" ]

Without(f, k) == [x \in (DOMAIN f) \ {k} |-> f[x]]

NotJson == [json |-> FALSE]
Json(data) == [json |-> TRUE, data |-> data]

Bodies ==
    { NotJson,
      Json(<<>>),
      Json([error |-> "Quota exceeded"]),
      Json([error |-> "Quota exceeded", evidence |-> FullEvidence]),
      Json([evidence |-> FullEvidence]),
      Json([evidence |-> Without(FullEvidence, "c2pa_verification")]),
      Json([evidence |-> Without(FullEvidence, "ipfs_url")]) }

StatusCodes == {200, 201, 304, 404, 500}

\* What requests.post(url, files=files) can do
Nets ==
    { [kind |-> "raise", exc |-> "ConnectionError", message |-> "Connection refused"],
      [kind |-> "raise", exc |-> "ConnectTimeout", message |-> "Connect timed out"],
      [kind |-> "raise", exc |-> "ReadTimeout", message |-> "Read timed out"] }
    \cup
    { [kind |-> "response", status_code |-> c, body |-> b] :
        c \in StatusCodes, b \in Bodies }

NoNet == [kind |-> "none"]

\* response.raise_for_status(): HTTPError for 4xx and 5xx
raise_for_status(response) ==
    IF 400 <= response.status_code /\ response.status_code < 500
    THEN RaiseMsg("HTTPError", ToString(response.status_code)
                                 \o " Client Error for url: " \o base_url \o "/notarize")
    ELSE IF 500 <= response.status_code /\ response.status_code < 600
    THEN RaiseMsg("HTTPError", ToString(response.status_code)
                                 \o " Server Error for url: " \o base_url \o "/notarize")
    ELSE None

\* response.json()
ResponseJson(response) ==
    IF response.body.json THEN Value(response.body.data)
    ELSE RaiseMsg("JSONDecodeError", "Expecting value: line 1 column 1 (char 0)")

\* The keys read from ev_data, in the order the Evidence(...) call reads them
EvidenceKeys == <<"ipfs_cid", "ipfs_url", "sha256_hash", "solana_tx", "c2pa_verification">>

\* Evidence(ipfs_cid=ev_data["ipfs_cid"], ...): KeyError on the first key absent
Evidence(ev_data) ==
    LET absent == {i \in DOMAIN EvidenceKeys : EvidenceKeys[i] \notin DOMAIN ev_data} IN
    IF absent # {}
    THEN LET i == CHOOSE j \in absent : \A k \in absent : j <= k
         IN  RaiseMsg("KeyError", "'" \o EvidenceKeys[i] \o "'")
    ELSE Value([ ipfs_cid    |-> ev_data.ipfs_cid,
                 ipfs_url    |-> ev_data.ipfs_url,
                 sha256_hash |-> ev_data.sha256_hash,
                 solana_tx   |-> ev_data.solana_tx,
                 c2pa_status |-> ev_data.c2pa_verification ])

\* lines 56-73: the body of the try block
TryBlock(net) ==
    IF net.kind = "raise" THEN net
    ELSE LET status == raise_for_status(net) IN
         IF status.kind = "raise" THEN status
         ELSE LET data == ResponseJson(net) IN
              IF data.kind = "raise" THEN data
              ELSE IF "error" \in DOMAIN data.value
                   THEN RaiseMsg("Exception", "Basalt Node Error: " \o data.value.error)
              ELSE IF "evidence" \notin DOMAIN data.value
                   THEN RaiseMsg("KeyError", "'evidence'")
              ELSE Evidence(data.value.evidence)

\* lines 75-78: the except clauses, in order
ExceptClauses(r) ==
    IF r.kind # "raise" THEN r
    ELSE IF "ConnectionError" \in ClientExceptionBases[r.exc]
    THEN RaiseMsg("Exception", "Could not connect to Basalt Node. Is the server running?")
    ELSE IF "Exception" \in ClientExceptionBases[r.exc]
    THEN RaiseMsg("Exception", "Notarization Failed: " \o r.message)
    ELSE r

\* whether notarize gets as far as requests.post
Posts(file) == Exists(file) /\ Open(file).kind = "value"

notarize(file, net) ==
    IF ~Exists(file)
    THEN RaiseMsg("FileNotFoundError", "Asset not found at: " \o file.path)
    ELSE IF Open(file).kind = "raise" THEN Open(file)
    ELSE ExceptClauses(TryBlock(net))

Notarize(file, net) ==
    /\ Len(wire) < MaxPosts
    /\ resp' = Resp("notarize",
                    [file |-> file, net |-> IF Posts(file) THEN net ELSE NoNet],
                    IF Posts(file) /\ net.kind = "response" THEN net.status_code ELSE 0,
                    "", NoCookie, notarize(file, net), FALSE)
    /\ wire' = IF Posts(file)
               THEN Append(wire, [method |-> "POST", url |-> base_url \o "/notarize",
                                  file |-> file.path])
               ELSE wire
    /\ UNCHANGED <<now, users, keys, cookie, reqs, issued>>

Init ==
    /\ now = 0
    /\ users = <<>>
    /\ keys = <<>>
    /\ cookie = NoCookie
    /\ resp = NoResp
    /\ reqs = [r \in Reqs |-> IdleReq]
    /\ issued = [data |-> <<>>, expires_delta |-> NoDelta, at |-> 0, token |-> NoCookie]
    /\ wire = <<>>

\* Concurrent notarization requests of one account, no time passing
SignupOne == Signup(<<"a", "@", "b">>, <<"e", "i", "g", "h", "t", "c", "h", "r">>)
Load == \E r \in Reqs, i \in 1..Len(users) : ReqLoad(r, i)
Check == \E r \in Reqs : ReqCheck(r)
Increment == \E r \in Reqs : ReqIncrement(r)

NextRace == SignupOne \/ Load \/ Check \/ Increment

SpecRace == Init /\ [][NextRace]_vars

\* One account's quota over two reset periods, one call at a time
GoodPassword == <<"e", "i", "g", "h", "t", "c", "h", "r">>
SignupQuota == Signup(<<"a", "@", "b">>, GoodPassword)
LoginQuota == Login(<<"a", "@", "b">>, GoodPassword)
TickQuota == \E d \in {ResetPeriodDays, ResetPeriodDays + 1} : Tick(d, MaxTime)
CheckLimit == \E i \in 1..Len(users) : CheckUserLimit(i)
IncrementUsage == \E i \in 1..Len(users) : IncrementUserUsage(i)

NextQuota ==
    \/ SignupQuota
    \/ LoginQuota
    \/ Logout
    \/ TickQuota
    \/ CheckLimit
    \/ IncrementUsage
    \/ Dashboard

SpecQuota == Init /\ [][NextQuota]_vars

\* Tokens: issued with any ttl, aged, forged, verified and resolved
TokenData ==
    { [user_id |-> 1, email |-> <<"a", "@", "b">>],
      [user_id |-> 2, email |-> <<"c", "@", "d">>],
      [user_id |-> 0],
      [email |-> <<"a", "@", "b">>] }

TokenDeltas == { NoDelta, Delta(-1), Delta(0), Delta(1) }

ForgedTokens ==
    { Garbage,
      JwtEncode(WithExp([user_id |-> 1], UtcNow(MaxTokenTime + 1, 0)), "attacker-key") }

SignupToken == Signup(<<"a", "@", "b">>, GoodPassword)
Issue ==
    \E data \in TokenData, d \in TokenDeltas, us \in ClockMicros :
        IssueToken(data, d, us)
Forge == \E token \in ForgedTokens : PresentForged(token)
TickToken == \E d \in {1, ACCESS_TOKEN_EXPIRE_HOURS \div 24} : Tick(d, MaxTokenTime)

NextToken ==
    \/ SignupToken
    \/ Logout
    \/ Issue
    \/ Forge
    \/ TickToken
    \/ DecodeToken
    \/ GetCurrentUser

SpecToken == Init /\ [][NextToken]_vars

\* Token round trips: any claim map and any ttl, down to half a second
RoundTripData == TokenData \cup { [user_id |-> 1, aud |-> <<"b", "s", "l", "t">>] }

RoundTripDeltas == TokenDeltas \cup { Timedelta(0, 0, HalfSecond), Timedelta(0, 1, 0) }

IssueAny ==
    \E data \in RoundTripData, d \in RoundTripDeltas, us \in ClockMicros :
        IssueToken(data, d, us)

TickRoundTrip == Tick(1, MaxClock)

NextRoundTrip ==
    \/ IssueAny
    \/ TickRoundTrip
    \/ DecodeToken

SpecRoundTrip == Init /\ [][NextRoundTrip]_vars

\* The SDK client against any disk and any server
NotarizeAny == \E file \in Files, net \in Nets : Notarize(file, net)

NextClient == NotarizeAny

SpecClient == Init /\ [][NextClient]_vars

\* API keys of one account: created, used, deactivated
KeyStrings ==
    { generate_api_key(h) : h \in TokenHex } \cup
    { <<>>,
      <<"b", "s", "l", "t">>,
      <<"b", "_", "l", "i", "v", "e", "_", "0">>,
      <<"B", "S", "L", "T", "_", "0">>,
      KeyPrefix \o <<"7">> }

SignupKeys == Signup(<<"a", "@", "b">>, GoodPassword)
ChangeTier == \E i \in 1..Len(users), tier \in Tiers : SetTier(i, tier)
CreateKey == \E h \in TokenHex : CreateApiKey(h)
DeleteKey == \E key_id \in 1..(MaxKeys + 1) : DeleteApiKey(key_id)
Validate == \E api_key \in KeyStrings : ValidateApiKey(api_key)
TickKeys == Tick(1, MaxClock)

NextKeys ==
    \/ SignupKeys
    \/ ChangeTier
    \/ CreateKey
    \/ DeleteKey
    \/ Validate
    \/ TickKeys

SpecKeys == Init /\ [][NextKeys]_vars

\* Who may create and delete keys: two accounts, sessions that come and go
TwoEmails == { <<"a", "@", "b">>, <<"c", "@", "d">> }
SignupAccess == \E e \in TwoEmails : Signup(e, GoodPassword)
LoginAccess == \E e \in TwoEmails : Login(e, GoodPassword)
ForgeAccess == PresentForged(Garbage)

NextAccess ==
    \/ SignupAccess
    \/ LoginAccess
    \/ Logout
    \/ ForgeAccess
    \/ ChangeTier
    \/ CreateKey
    \/ DeleteKey

SpecAccess == Init /\ [][NextAccess]_vars

\* Accounts: any email and password, signing up and logging in
SignupAny == \E e \in Emails, p \in Passwords : Signup(e, p)
LoginAny == \E e \in Emails, p \in Passwords : Login(e, p)
TickClock == Tick(1, MaxClock)

Next ==
    \/ SignupAny
    \/ LoginAny
    \/ Logout
    \/ TickClock

Spec == Init /\ [][Next]_vars

(***************************************************************************)
(* C1: under every interleaving of requests of one user, with no reset,    *)
(* the usage counter never exceeds the limit, and the requests that passed *)
(* the check are never more than the quota that remained when they loaded  *)
(* the user.                                                               *)
(***************************************************************************)
PassedFrom(i, usage) ==
    { r \in Reqs : /\ reqs[r].pc = "passed"
                   /\ reqs[r].uid = i
                   /\ reqs[r].loaded.notarizations_this_month = usage }

NoDoublePass ==
    \A i \in 1..Len(users) :
        /\ users[i].notarizations_this_month <= users[i].monthly_limit
        /\ \A usage \in 0..MaxUsage :
              PassedFrom(i, usage) # {} =>
                  Cardinality(PassedFrom(i, usage)) <= users[i].monthly_limit - usage

(***************************************************************************)
(* C4: lazy quota reset.  An access (check_user_limit or the dashboard) of *)
(* a user whose stored reset_date is earlier than the current time sets    *)
(* notarizations_this_month to 0 and reset_date to now + 30 days, and      *)
(* check_user_limit then returns true; an access of a user whose           *)
(* reset_date has not passed changes neither field.                        *)
(***************************************************************************)
AccessPost(i, isCheck) ==
    IF users[i].reset_date # NoDate /\ users[i].reset_date < now
    THEN /\ users'[i].notarizations_this_month = 0
         /\ users'[i].reset_date = now + ResetPeriodDays
         /\ isCheck => resp'.result = Bool(TRUE)
    ELSE /\ users'[i].notarizations_this_month = users[i].notarizations_this_month
         /\ users'[i].reset_date = users[i].reset_date

LazyReset ==
    [][ /\ \A i \in 1..Len(users) : CheckUserLimit(i) => AccessPost(i, TRUE)
        /\ (Dashboard /\ resp'.status = 200) => AccessPost(resp'.arg.id, FALSE)
      ]_vars

\* a check found a used-up period over and reset it
LazyResetSeen ==
    /\ resp.op = "check_user_limit"
    /\ resp.at = now
    /\ resp.arg.user.reset_date < now
    /\ resp.arg.user.notarizations_this_month = resp.arg.user.monthly_limit
    /\ users[resp.arg.id].notarizations_this_month = 0
    /\ users[resp.arg.id].reset_date = now + ResetPeriodDays
    /\ resp.result = Bool(TRUE)

(***************************************************************************)
(* C5: with reset_date in the future check_user_limit returns true exactly *)
(* when notarizations_this_month < monthly_limit; increment_user_usage     *)
(* adds exactly 1 to notarizations_this_month, whatever its value, and     *)
(* leaves monthly_limit and reset_date alone.                              *)
(***************************************************************************)
QuotaContract ==
    [][ \A i \in 1..Len(users) :
          /\ (CheckUserLimit(i) /\ users[i].reset_date > now) =>
                resp'.result =
                  Bool(users[i].notarizations_this_month < users[i].monthly_limit)
          /\ IncrementUserUsage(i) =>
                /\ users'[i].notarizations_this_month =
                      users[i].notarizations_this_month + 1
                /\ users'[i].monthly_limit = users[i].monthly_limit
                /\ users'[i].reset_date = users[i].reset_date
      ]_vars

\* usage was raised to the limit and the check that follows says no
QuotaExhaustedSeen ==
    /\ resp.op = "check_user_limit"
    /\ resp.at = now
    /\ resp.arg.user.reset_date > now
    /\ users[resp.arg.id].notarizations_this_month = users[resp.arg.id].monthly_limit
    /\ resp.result = Bool(FALSE)

(***************************************************************************)
(* C2: a token issued by create_access_token with an expires_delta of zero *)
(* length, or with an expiry already in the past, fails verification:      *)
(* decode_access_token returns None once any time has elapsed.             *)
(***************************************************************************)
ZeroTtlTokenRejected ==
    ( /\ resp.op = "decode_access_token"
      /\ resp.at = now
      /\ resp.arg.token = issued.token
      /\ issued.expires_delta.given
      /\ issued.expires_delta.days <= 0
      /\ issued.expires_delta.seconds = 0
      /\ issued.expires_delta.micro = 0
      /\ now > issued.at )
    => resp.result = None

(***************************************************************************)
(* C3: routine failures never raise.  decode_access_token returns None for *)
(* a token that is malformed, carries a foreign signature or has expired;  *)
(* get_current_user returns None when the cookie is missing, the token is  *)
(* invalid or expired, the user_id claim is missing or no User has the id. *)
(***************************************************************************)
Malformed(token) == token.form # "jwt"
ForeignSignature(token) == token.form = "jwt" /\ token.key # SECRET_KEY
Expired(token, t) ==
    /\ token.form = "jwt"
    /\ "exp" \in DOMAIN token.payload
    /\ token.payload.exp < t * SecondsPerDay
InvalidToken(token, t) ==
    Malformed(token) \/ ForeignSignature(token) \/ Expired(token, t)
NoSuchUser(token) ==
    /\ token.form = "jwt"
    /\ \/ "user_id" \notin DOMAIN token.payload
       \/ token.payload.user_id \notin 1..Len(users)

RoutineFailuresReturnNone ==
    /\ ( /\ resp.op = "decode_access_token"
         /\ resp.at = now
         /\ InvalidToken(resp.arg.token, now) )
       => resp.result = None
    /\ ( /\ resp.op = "get_current_user"
         /\ resp.at = now
         /\ \/ resp.arg.token = NoCookie
            \/ InvalidToken(resp.arg.token, now)
            \/ NoSuchUser(resp.arg.token) )
       => resp.result = None

(***************************************************************************)
(* C6: validate_api_key with an empty key, or a key that does not begin    *)
(* with "bslt_", returns no user and never touches the store: no statement *)
(* is issued and every APIKey and User row is unchanged.                   *)
(***************************************************************************)
LacksPrefix(api_key) ==
    \/ Len(api_key) < 5
    \/ api_key[1] # "b" \/ api_key[2] # "s" \/ api_key[3] # "l"
    \/ api_key[4] # "t" \/ api_key[5] # "_"

ShapeRejectNeverTouches ==
    [][ \A api_key \in KeyStrings :
          (ValidateApiKey(api_key) /\ LacksPrefix(api_key)) =>
              /\ resp'.result = None
              /\ ~resp'.touched
              /\ keys' = keys
              /\ users' = users
      ]_vars

\* a key without the prefix was turned away while keys were on record
ShapeRejectSeen ==
    /\ resp.op = "validate_api_key"
    /\ resp.arg.api_key # <<>>
    /\ LacksPrefix(resp.arg.api_key)
    /\ resp.result = None
    /\ ~resp.touched
    /\ \E j \in 1..Len(keys) : keys[j].is_active

(***************************************************************************)
(* C7: a successful validate_api_key (a prefixed string matching an active *)
(* key) returns the key's owner, adds exactly 1 to that key's usage_count  *)
(* and sets its last_used to the current time; no other key changes, and   *)
(* nothing but a successful validation of a key changes its usage_count or *)
(* last_used, so usage_count counts the successful validations.            *)
(***************************************************************************)
Matches(j, api_key) ==
    /\ ~LacksPrefix(api_key)
    /\ keys[j].key = api_key
    /\ keys[j].is_active

ValidationCounted ==
    [][ \A j \in 1..Len(keys) :
          /\ \A api_key \in KeyStrings :
                (ValidateApiKey(api_key) /\ Matches(j, api_key)) =>
                    /\ resp'.result = Value(keys[j].user_id)
                    /\ keys'[j].usage_count = keys[j].usage_count + 1
                    /\ keys'[j].last_used = now
                    /\ \A k \in 1..Len(keys) : k # j => keys'[k] = keys[k]
          /\ ( \/ keys'[j].usage_count # keys[j].usage_count
               \/ keys'[j].last_used # keys[j].last_used ) =>
                 \E api_key \in KeyStrings :
                     ValidateApiKey(api_key) /\ Matches(j, api_key)
      ]_vars

\* a key validated twice, later than another key that was validated once
ValidationCountedSeen ==
    /\ resp.op = "validate_api_key"
    /\ resp.at = now
    /\ resp.result.kind = "value"
    /\ \E j, k \in 1..Len(keys) :
          /\ keys[j].key = resp.arg.api_key
          /\ keys[j].usage_count = 2
          /\ keys[j].last_used = now
          /\ resp.result = Value(keys[j].user_id)
          /\ k # j
          /\ keys[k].usage_count = 1
          /\ keys[k].last_used < now

(***************************************************************************)
(* C8: deleting an API key is a soft deactivation.  delete_api_key sets    *)
(* is_active to false and keeps the row; no step removes a row, changes    *)
(* its key or owner, or sets is_active back to true; validate_api_key on   *)
(* a deactivated key returns None and updates nothing, as for a key that   *)
(* is not on record.                                                       *)
(***************************************************************************)
SoftDelete ==
    [][ /\ Len(keys') >= Len(keys)
        /\ \A j \in 1..Len(keys) :
              /\ keys'[j].key = keys[j].key
              /\ keys'[j].user_id = keys[j].user_id
              /\ ~keys[j].is_active => ~keys'[j].is_active
        /\ \A key_id \in 1..(MaxKeys + 1) :
              (DeleteApiKey(key_id) /\ resp'.status = 200) =>
                  keys' = [keys EXCEPT ![key_id].is_active = FALSE]
        /\ \A api_key \in KeyStrings :
              ( /\ ValidateApiKey(api_key)
                /\ \E j \in 1..Len(keys) : keys[j].key = api_key /\ ~keys[j].is_active )
              => /\ resp'.result = None
                 /\ resp'.touched
                 /\ keys' = keys
      ]_vars

\* a key that had been used was deactivated and is now turned away
SoftDeleteSeen ==
    /\ resp.op = "validate_api_key"
    /\ resp.result = None
    /\ \E j \in 1..Len(keys) :
          /\ keys[j].key = resp.arg.api_key
          /\ ~keys[j].is_active
          /\ keys[j].usage_count > 0

(***************************************************************************)
(* C9: create_api_key creates a key only for an authenticated user whose   *)
(* tier has API access (pro, enterprise); an unauthenticated request or a  *)
(* user whose tier lacks API access gets 401 / 403 and no row is created.  *)
(* So every key row belongs to a user whose tier had API access when the   *)
(* row was created.                                                        *)
(***************************************************************************)
Authenticated(c, t) ==
    /\ c.form = "jwt"
    /\ c.key = SECRET_KEY
    /\ c.payload.exp > t * SecondsPerDay
    /\ "user_id" \in DOMAIN c.payload
    /\ c.payload.user_id \in 1..Len(users)

MayCreateKeys(c, t) ==
    /\ Authenticated(c, t)
    /\ PRICING_TIERS[users[c.payload.user_id].tier].api_access

KeyCreationGated ==
    [][ /\ \A h \in TokenHex :
              (CreateApiKey(h) /\ ~MayCreateKeys(cookie, now)) =>
                  /\ resp'.status \in {401, 403}
                  /\ keys' = keys
        /\ Len(keys') > Len(keys) =>
              /\ MayCreateKeys(cookie, now)
              /\ keys'[Len(keys')].user_id = cookie.payload.user_id
      ]_vars

(***************************************************************************)
(* C10: stored emails are lower-case and unique.  A signup whose           *)
(* lower-cased email is already stored gets the duplicate-account fault; a *)
(* signup with a password shorter than 8 characters gets the validation    *)
(* fault; a rejected signup creates no User row and sets no cookie; an     *)
(* accepted one creates exactly one row with tier free, monthly_limit 10,  *)
(* usage 0 and reset_date 30 days ahead.                                   *)
(***************************************************************************)
LowerCase(email) == \A i \in DOMAIN email : email[i] \notin {"A", "B", "C", "D"}

Registered(email) == \E i \in 1..Len(users) : users[i].email = Lower(email)

EmailsNormalizedUnique ==
    \A i \in 1..Len(users) :
        /\ LowerCase(users[i].email)
        /\ \A j \in 1..Len(users) : users[i].email = users[j].email => i = j

SignupOutcome(email, password) ==
    IF Registered(email) \/ Len(password) < 8
    THEN /\ resp'.error # ""
         /\ users' = users
         /\ cookie' = cookie
         /\ resp'.set_cookie = NoCookie
    ELSE /\ resp'.error = ""
         /\ Len(users') = Len(users) + 1
         /\ \A i \in 1..Len(users) : users'[i] = users[i]
         /\ LET user == users'[Len(users')] IN
               /\ user.email = Lower(email)
               /\ user.tier = "free"
               /\ user.monthly_limit = 10
               /\ user.notarizations_this_month = 0
               /\ user.reset_date = now + 30

\* as claimed: each fault is returned whenever its condition holds
SignupFaultsAsClaimed ==
    [][ /\ EmailsNormalizedUnique'
        /\ \A email \in Emails, password \in Passwords :
              Signup(email, password) =>
                  /\ Registered(email) =>
                        resp'.error = "An account with this email already exists"
                  /\ Len(password) < 8 =>
                        resp'.error = "Password must be at least 8 characters"
                  /\ SignupOutcome(email, password)
      ]_vars

\* as the code has it: the duplicate test comes first
SignupFaults ==
    [][ /\ EmailsNormalizedUnique'
        /\ \A email \in Emails, password \in Passwords :
              Signup(email, password) =>
                  /\ Registered(email) =>
                        resp'.error = "An account with this email already exists"
                  /\ (~Registered(email) /\ Len(password) < 8) =>
                        resp'.error = "Password must be at least 8 characters"
                  /\ SignupOutcome(email, password)
      ]_vars

\* an account exists under the lower-cased email, and a signup with the
\* same email in capitals and a short password was answered as a duplicate
SignupFaultsSeen ==
    /\ resp.op = "signup"
    /\ ~LowerCase(resp.arg.email)
    /\ Len(resp.arg.password) < 8
    /\ resp.error = "An account with this email already exists"
    /\ resp.set_cookie = NoCookie
    /\ Len(users) = 1
    /\ users[1].email = Lower(resp.arg.email)

(***************************************************************************)
(* C11: a login with a registered email and its password sets a session    *)
(* cookie whose token decodes to that user's user_id and changes nothing   *)
(* in the store but that user's last_login; a login with a wrong password  *)
(* sets no cookie and gets the generic invalid-credentials response, the   *)
(* same response as a login with an email that has no account.             *)
(***************************************************************************)
AccountOf(email) ==
    IF Registered(email)
    THEN CHOOSE i \in 1..Len(users) : users[i].email = Lower(email)
    ELSE 0

RightPassword(email, password) ==
    /\ AccountOf(email) # 0
    /\ users[AccountOf(email)].password_hash.of = password

\* what the client sees of a response
Visible(r) == [status |-> r.status, error |-> r.error, set_cookie |-> r.set_cookie]

InvalidCredentials ==
    [status |-> 200, error |-> "Invalid email or password", set_cookie |-> NoCookie]

LoginOutcome ==
    [][ \A email \in Emails, password \in Passwords :
          Login(email, password) =>
              IF RightPassword(email, password)
              THEN /\ resp'.status = 303
                   /\ resp'.set_cookie = cookie'
                   /\ get_user_from_token(cookie', now) = Value(AccountOf(email))
                   /\ users' = [users EXCEPT ![AccountOf(email)].last_login = now]
              ELSE /\ Visible(resp') = InvalidCredentials
                   /\ cookie' = cookie
                   /\ users' = users
      ]_vars

\* the second account logged in under its email in capitals; the first
\* account's last_login is untouched
LoginOutcomeSeen ==
    /\ resp.op = "login"
    /\ resp.at = now
    /\ resp.status = 303
    /\ Len(users) = 2
    /\ ~LowerCase(resp.arg.email)
    /\ resp.result = Value(2)
    /\ get_user_from_token(cookie, now) = Value(2)
    /\ users[2].last_login = now
    /\ users[1].last_login = NoDate

\* a wrong password for a registered email was answered like an unknown email
LoginRefusedSeen ==
    /\ resp.op = "login"
    /\ Registered(resp.arg.email)
    /\ Len(resp.arg.password) >= 8
    /\ ~RightPassword(resp.arg.email, resp.arg.password)
    /\ Visible(resp) = InvalidCredentials

(***************************************************************************)
(* C12: token round trip.  A token issued by create_access_token for a     *)
(* claim map c and a ttl t, verified at once, gives back c plus an "exp"   *)
(* claim of the issuance time + t; without a ttl the expiry is the         *)
(* issuance time + 7 days; c itself is not changed by the call, and        *)
(* get_user_from_token gives c's user_id.  The expiry is carried in whole  *)
(* seconds, so this holds for a ttl of one second or more, and for a map   *)
(* that has none of the claim names the verifier itself interprets.        *)
(***************************************************************************)
Positive(d) ==
    /\ d.given
    /\ d.days > 0 \/ (d.days = 0 /\ (d.seconds > 0 \/ d.micro > 0))

OneSecondOrMore(d) ==
    /\ d.given
    /\ d.days > 0 \/ (d.days = 0 /\ d.seconds > 0)

RegisteredClaims == {"exp", "nbf", "iat", "aud", "iss", "sub", "jti"}

PlainClaims(data) == DOMAIN data \cap RegisteredClaims = {}

\* the expiry the claim names, in whole seconds
ExpiryOf(d, us) ==
    NumericDate(DatetimeAdd(UtcNow(now, us), IF d.given THEN d ELSE Timedelta(7, 0, 0)))

RoundTrips(data, d, us) ==
    /\ decode_access_token(cookie', now) = Claims(WithExp(data, ExpiryOf(d, us)))
    /\ get_user_from_token(cookie', now) = DictGet(data, "user_id")
    /\ issued'.data = data

SubSecondTtlSeen ==
    /\ resp.op = "create_access_token"
    /\ resp.at = now
    /\ resp.arg.expires_delta = Timedelta(0, 0, HalfSecond)
    /\ cookie = issued.token
    /\ decode_access_token(cookie, now) = None

(***************************************************************************)
(* C13: notarize maps each failure to exactly one fault.  A missing local  *)
(* file raises the file-not-found fault before any request is sent; a      *)
(* connection failure raises the server-unreachable fault, not the generic *)
(* one; every other failure (a non-2xx status, a malformed body, a missing *)
(* evidence field, an `error` field) raises the generic "Notarization      *)
(* Failed" fault carrying the underlying message; an Evidence is returned  *)
(* only for a 2xx response with no `error` field and all five fields.      *)
(***************************************************************************)
ConnectionFailure(net) ==
    /\ net.kind = "raise"
    /\ net.exc \in {"ConnectionError", "ConnectTimeout"}

CompleteEvidence(net) ==
    /\ net.kind = "response"
    /\ 200 <= net.status_code /\ net.status_code < 300
    /\ net.body.json
    /\ "error" \notin DOMAIN net.body.data
    /\ "evidence" \in DOMAIN net.body.data
    /\ \A i \in DOMAIN EvidenceKeys : EvidenceKeys[i] \in DOMAIN net.body.data.evidence

ServerUnreachable ==
    RaiseMsg("Exception", "Could not connect to Basalt Node. Is the server running?")

GenericPrefix == "Notarization Failed: "

HasErrorField(net) ==
    /\ net.kind = "response"
    /\ net.body.json
    /\ "error" \in DOMAIN net.body.data

GenericFault(r, net) ==
    /\ r.kind = "raise"
    /\ r.exc = "Exception"
    /\ Len(r.message) > Len(GenericPrefix)
    /\ SubSeq(r.message, 1, Len(GenericPrefix)) = GenericPrefix
    /\ (net.kind = "response" /\ net.status_code = 200 /\ HasErrorField(net)) =>
          r.message = GenericPrefix \o "Basalt Node Error: " \o net.body.data.error

NotarizeFaults ==
    [][ \A file \in Files, net \in Nets :
          Notarize(file, net) =>
              IF file.kind = "absent"
              THEN /\ resp'.result.kind = "raise"
                   /\ resp'.result.exc = "FileNotFoundError"
                   /\ wire' = wire
              ELSE IF file.kind = "file" /\ ConnectionFailure(net)
              THEN resp'.result = ServerUnreachable
              ELSE IF file.kind = "file" /\ CompleteEvidence(net)
              THEN /\ resp'.result.kind = "value"
                   /\ resp'.result.value =
                        [ ipfs_cid    |-> net.body.data.evidence.ipfs_cid,
                          ipfs_url    |-> net.body.data.evidence.ipfs_url,
                          sha256_hash |-> net.body.data.evidence.sha256_hash,
                          solana_tx   |-> net.body.data.evidence.solana_tx,
                          c2pa_status |-> net.body.data.evidence.c2pa_verification ]
              ELSE GenericFault(resp'.result, net)
      ]_vars

(***************************************************************************)
(* C14: key-deletion isolation.  delete_api_key deactivates a key only     *)
(* when the key's user_id is the id of the user the session cookie         *)
(* resolves to; a request without a session, or for a key id that is       *)
(* unknown or owned by another user (404), changes no APIKey row; so       *)
(* whatever the requests, a key is only ever deactivated by its owner.     *)
(***************************************************************************)
SessionOwns(key_id) ==
    /\ Authenticated(cookie, now)
    /\ key_id \in 1..Len(keys)
    /\ keys[key_id].user_id = cookie.payload.user_id

KeyDeletionIsolated ==
    [][ /\ \A key_id \in 1..(MaxKeys + 1) :
              DeleteApiKey(key_id) =>
                  IF SessionOwns(key_id)
                  THEN /\ keys' = [keys EXCEPT ![key_id].is_active = FALSE]
                       /\ resp'.status = 200
                  ELSE /\ keys' = keys
                       /\ cookie = NoCookie => resp'.status = 401
                       /\ Authenticated(cookie, now) => resp'.status = 404
        /\ \A j \in 1..Len(keys) :
              (keys[j].is_active /\ ~keys'[j].is_active) => SessionOwns(j)
      ]_vars

KeyDeletionRefusedSeen ==
    /\ resp.op = "delete_api_key"
    /\ resp.status = 404
    /\ resp.arg.cookie = cookie
    /\ Authenticated(cookie, now)
    /\ resp.arg.key_id \in 1..Len(keys)
    /\ keys[resp.arg.key_id].user_id # cookie.payload.user_id
    /\ keys[resp.arg.key_id].is_active
    /\ \E j \in 1..Len(keys) :
          keys[j].user_id = cookie.payload.user_id /\ ~keys[j].is_active

====
